---------------------------- MODULE Spec2Model ----------------------------
(***************************************************************************)
(* A model of the subtitle aggregation pipeline of src/main.py:            *)
(*   parse_srt_to_text  (lines 91-132)  the line-cursor subtitle parser    *)
(*   merge_subtitles    (lines 134-200) discovery, merge loop, progress    *)
(*                                                                         *)
(*   download_subtitles (lines 296-344) the downloader run and the merge   *)
(*                                                                         *)
(* A Python str is a sequence of one-character strings.  The               *)
(* specifications share the module: SpecParse runs parse_srt_to_text on    *)
(* one file of arbitrary lines, Spec runs merge_subtitles on one           *)
(* directory and runs the same parser steps for each call of line 182,     *)
(* SpecDownload runs download_subtitles from the start of the downloader   *)
(* and runs the merge steps for the call of line 321.                      *)
(***************************************************************************)
EXTENDS Integers, Sequences, FiniteSets, TLC

(***************************************************************************)
(* Bounds of the model.                                                    *)
(***************************************************************************)
\* longest subtitle file, in lines, that SpecParse feeds to the parser
MaxLines == 7
\* most files the scanned directory holds in Spec
MaxFiles == 2

(***************************************************************************)
(* str helpers, computed the way the Python built-ins compute them.        *)
(***************************************************************************)
Whitespace == {" ", "\t"}

Digits == {"0", "1", "2", "3", "4", "5", "6", "7", "8", "9"}

RECURSIVE lstrip(_)
lstrip(s) ==
    IF s # <<>> /\ Head(s) \in Whitespace THEN lstrip(Tail(s)) ELSE s

RECURSIVE rstrip(_)
rstrip(s) ==
    IF s # <<>> /\ s[Len(s)] \in Whitespace
    THEN rstrip(SubSeq(s, 1, Len(s) - 1))
    ELSE s

\* str.strip()
strip(s) == rstrip(lstrip(s))

\* str.isdigit(): non-empty and every character a digit
isdigit(s) == s # <<>> /\ \A k \in 1..Len(s) : s[k] \in Digits

\* '-->' in s
HasArrow(s) ==
    \E k \in 1..(Len(s) - 2) : s[k] = "-" /\ s[k + 1] = "-" /\ s[k + 2] = ">"

\* sep.join(parts)
RECURSIVE join(_, _)
join(sep, parts) ==
    IF parts = <<>> THEN <<>>
    ELSE IF Len(parts) = 1 THEN parts[1]
    ELSE parts[1] \o sep \o join(sep, Tail(parts))

\* s.split(c) for a one-character separator c: always at least one piece
RECURSIVE SplitFrom(_, _, _, _)
SplitFrom(s, c, k, cur) ==
    IF k > Len(s) THEN <<cur>>
    ELSE IF s[k] = c THEN <<cur>> \o SplitFrom(s, c, k + 1, <<>>)
    ELSE SplitFrom(s, c, k + 1, Append(cur, s[k]))

split(s, c) == SplitFrom(s, c, 1, <<>>)

(***************************************************************************)
(* parse_srt_to_text: the steps of the parsing loop.  The cursor i is      *)
(* 0-based as in the source, so lines[i] of the source is ls[i + 1].       *)
(***************************************************************************)
\* line 104: "if not lines[i].strip()"
IsBlankLine(ls, i) == strip(ls[i + 1]) = <<>>

\* line 109: "if lines[i].strip().isdigit()"
IsIndexLine(ls, i) == isdigit(strip(ls[i + 1]))

\* a parser that leaves the timestamp line to the text collector
SkipTimestamp_Never(ls, j) == j

\* lines 113-114: skip the timestamp line if it is there
SkipTimestamp(ls, j) ==
    IF j < Len(ls) /\ HasArrow(ls[j + 1]) THEN j + 1 ELSE j

\* lines 117-120: collect text until a blank line or another number
RECURSIVE CollectText(_, _, _)
CollectText(ls, j, text_lines) ==
    IF j < Len(ls) /\ strip(ls[j + 1]) # <<>> /\ ~isdigit(strip(ls[j + 1]))
    THEN CollectText(ls, j + 1, Append(text_lines, strip(ls[j + 1])))
    ELSE [i |-> j, text_lines |-> text_lines]

\* lines 109-123: the index-block branch of one outer iteration
IndexBlockStep(ls, i, parsed) ==
    LET c == CollectText(ls, SkipTimestamp(ls, i + 1), <<>>)
    IN  [i |-> c.i,
         parsed_text |-> IF c.text_lines # <<>>
                         THEN Append(parsed, join(<<" ">>, c.text_lines))
                         ELSE parsed]

\* a parser whose "i += 1" of line 128 sits under the "if" of line 126
IrregularStep_AdvanceOnAppend(ls, i, parsed) ==
    IF strip(ls[i + 1]) # <<>> /\ ~HasArrow(ls[i + 1])
    THEN [i |-> i + 1, parsed_text |-> Append(parsed, strip(ls[i + 1]))]
    ELSE [i |-> i, parsed_text |-> parsed]

\* lines 124-128: the irregular-line branch of one outer iteration
IrregularStep(ls, i, parsed) ==
    [i |-> i + 1,
     parsed_text |-> IF strip(ls[i + 1]) # <<>> /\ ~HasArrow(ls[i + 1])
                     THEN Append(parsed, strip(ls[i + 1]))
                     ELSE parsed]

\* line 132: the placeholder returned when the file cannot be opened or read
\* (one token stands for the text "[Error parsing file: <message>]")
ErrorPlaceholder == <<"[Error parsing file]">>

(***************************************************************************)
(* Paths and the sample directory.                                         *)
(***************************************************************************)
\* s.endswith(suffix)
endswith(s, suffix) ==
    /\ Len(suffix) <= Len(s)
    /\ SubSeq(s, Len(s) - Len(suffix) + 1, Len(s)) = suffix

\* position of the last occurrence of character c in s, 0 if there is none
RECURSIVE LastIndexOf(_, _, _)
LastIndexOf(s, c, k) ==
    IF k = 0 THEN 0
    ELSE IF s[k] = c THEN k
    ELSE LastIndexOf(s, c, k - 1)

\* line 172: os.path.basename(srt_file)
basename(path) ==
    SubSeq(path, LastIndexOf(path, "/", Len(path)) + 1, Len(path))

\* line 173: os.path.splitext(filename)[0]
splitext0(filename) ==
    LET dot == LastIndexOf(filename, ".", Len(filename))
    IN  IF dot <= 1 THEN filename ELSE SubSeq(filename, 1, dot - 1)

\* a scan that looks for WebVTT files first
SubtitleExts_VttFirst ==
    << <<".", "v", "t", "t">>,
       <<".", "s", "r", "t">>,
       <<".", "a", "s", "s">>,
       <<".", "l", "r", "c">>,
       <<".", "t", "t", "m", "l">>,
       <<".", "s", "b", "v">>,
       <<".", "j", "s", "o", "n">> >>

\* line 151: the extensions scanned for, in scan order
SubtitleExts ==
    << <<".", "s", "r", "t">>,
       <<".", "v", "t", "t">>,
       <<".", "a", "s", "s">>,
       <<".", "l", "r", "c">>,
       <<".", "t", "t", "m", "l">>,
       <<".", "s", "b", "v">>,
       <<".", "j", "s", "o", "n">> >>

\* line 152: glob.glob(f"{output_dir}/**/*{ext}", recursive=True) over a
\* directory whose walk lists the files in the order of `listing`
glob(listing, ext) ==
    SelectSeq(listing, LAMBDA f : endswith(f.path, ext))

\* the extensions the files of the sample directories carry: two subtitle
\* formats and one that discovery does not look for
SampleExts ==
    { <<".", "s", "r", "t">>, <<".", "v", "t", "t">>, <<".", "t", "x", "t">> }

OutputDir == <<"o", "u", "t">>

DigitChar(k) == <<"0", "1", "2", "3", "4", "5", "6", "7", "8", "9">>[k + 1]

\* the k-th file of the directory walk; every second one lies in a subdirectory
SamplePath(k, ext) ==
    OutputDir \o <<"/">> \o (IF k % 2 = 0 THEN <<"s", "u", "b", "/">> ELSE <<>>)
              \o <<"v", DigitChar(k)>> \o ext

\* what a sample file holds: one SubRip block, or a WebVTT header and a cue
SampleContent(path) ==
    IF endswith(path, <<".", "s", "r", "t">>)
    THEN join(<<"\n">>, << <<"1">>, <<"0", "-", "-", ">", "1">>,
                           <<"h", "i", " ">>, <<"y", "o">>, <<>> >>)
    ELSE join(<<"\n">>, << <<"W", "E", "B", "V", "T", "T">>, <<>>,
                           <<"0", "-", "-", ">", "1">>, <<"h", "i">>, <<>> >>)

\* line 176 / 179: '=' * 80
DividerLine ==
    "================================================================================"

\* lines 176-179: the k-th string written for the header of srt_file
HeaderString(k, srt_file) ==
    LET filename    == basename(srt_file)
        video_title == splitext0(filename)
    IN  CASE k = 1 -> <<"\n", "\n", DividerLine, "\n">>
          [] k = 2 -> <<"VIDEO: ">> \o video_title \o <<"\n">>
          [] k = 3 -> <<"FILE: ">> \o srt_file \o <<"\n">>
          [] k = 4 -> <<DividerLine, "\n", "\n">>

\* the number of header writes per file (lines 176-179)
HeaderWrites == 4

\* lines 188-190: the progress bar after file i (0-based) of total_files
ProgressUpdate(idx, total) ==
    [progress  |-> ((idx + 1) * 30) \div total,
     percent   |-> ((idx + 1) * 100) \div total,
     processed |-> idx + 1]

(***************************************************************************)
(* State.                                                                  *)
(***************************************************************************)
VARIABLES
    \* parse_srt_to_text
    p_readable,     \* whether open()/read() of the file succeed
    p_content,      \* the decoded text of the file
    lines,          \* content.split('\n')
    i,              \* the cursor
    parsed_text,    \* output lines collected so far
    p_result,       \* the returned string
    p_pc,           \* "idle" | "open" | "loop" | "returned" | "raised"
    visited,        \* history: the cursor at the start of each iteration of
                    \* the outer loop
    \* merge_subtitles
    dir_listing,    \* the files under output_dir, in directory-walk order
    ext_i,          \* how many extensions of line 151 have been scanned
    subtitle_files, \* the discovered paths
    total_files,
    count,
    m_i,            \* the loop index i of line 169
    h_k,            \* header strings of the current file written so far
    subtitle_text,  \* what parse_srt_to_text returned for the current file
    output,         \* the strings written to the output file, each tagged
                    \* with the write call and the file index it is for
    output_state,   \* "untouched" | "open" | "closed"
    progress_out,   \* the progress bars printed (lines 165 and 193)
    errors_out,     \* the files reported by line 196
    ret,            \* the value returned
    m_pc,           \* "idle" | "scan" | "open" | "loop" | "header" | "parse"
                    \* | "parsing" | "text" | "count" | "except" | "returned"
                    \* | "raised"
    \* history, for stating the properties
    attempted,      \* the loop indices the loop body was entered with
    write_failed,   \* the loop indices at which an output.write raised
    open_failed,    \* whether opening the output file raised
    \* download_subtitles
    merge_to_single_file,
    process,        \* the yt-dlp process: "none" | "not_started" | "running"
                    \* | "exited"
    returncode,     \* process.returncode once it has exited
    subtitle_count,
    merged_count,
    d_reported,     \* what the function reported: "completed" | "exit_code"
                    \* | "exception", in order
    d_ret,          \* the value returned
    d_pc,           \* "idle" | "popen" | "wait" | "check" | "count" | "merge"
                    \* | "merging" | "summary" | "returned"
    merge_calls     \* history: how often merge_subtitles was called

pvars == <<p_readable, p_content, lines, i, parsed_text, p_result, p_pc,
           visited>>

mvars == <<dir_listing, ext_i, subtitle_files, total_files, count, m_i, h_k,
           subtitle_text, output, output_state, progress_out, errors_out,
           ret, m_pc, attempted, write_failed, open_failed>>

dvars == <<merge_to_single_file, process, returncode, subtitle_count,
           merged_count, d_reported, d_ret, d_pc, merge_calls>>

vars == <<pvars, mvars, dvars>>

ParseIdle ==
    /\ p_readable = FALSE
    /\ p_content = <<>>
    /\ lines = <<>>
    /\ i = 0
    /\ parsed_text = <<>>
    /\ p_result = <<>>
    /\ p_pc = "idle"
    /\ visited = <<>>

MergeIdle ==
    /\ dir_listing = <<>>
    /\ ext_i = 0
    /\ subtitle_files = <<>>
    /\ total_files = 0
    /\ count = 0
    /\ m_i = 0
    /\ h_k = 0
    /\ subtitle_text = <<>>
    /\ output = <<>>
    /\ output_state = "untouched"
    /\ progress_out = <<>>
    /\ errors_out = <<>>
    /\ ret = 0
    /\ m_pc = "idle"
    /\ attempted = <<>>
    /\ write_failed = {}
    /\ open_failed = FALSE

DownloadIdle ==
    /\ merge_to_single_file = FALSE
    /\ process = "none"
    /\ returncode = 0
    /\ subtitle_count = 0
    /\ merged_count = 0
    /\ d_reported = <<>>
    /\ d_ret = FALSE
    /\ d_pc = "idle"
    /\ merge_calls = 0

(***************************************************************************)
(* SpecParse: parse_srt_to_text on one file.                               *)
(***************************************************************************)
\* the lines the inputs are built from: an empty line, an index and a text
\* line with padding around them, and a timestamp range
LineKinds ==
    { <<>>,
      <<" ", "7">>,
      <<"0", "-", "-", ">", "1">>,
      <<"a", " ">> }

InputLines == UNION { [1..n -> LineKinds] : n \in 1..MaxLines }

ParseInit ==
    /\ \/ /\ p_readable = TRUE
          /\ p_content \in { join(<<"\n">>, ls) : ls \in InputLines }
       \/ /\ p_readable = FALSE
          /\ p_content = <<>>
    /\ lines = <<>>
    /\ i = 0
    /\ parsed_text = <<>>
    /\ p_result = <<>>
    /\ p_pc = "open"
    /\ visited = <<>>
    /\ MergeIdle
    /\ DownloadIdle

\* a parser without the handler of line 131: a failed open() raises
ReadFile_Raises ==
    /\ p_pc = "open"
    /\ IF p_readable
       THEN /\ lines' = split(p_content, "\n")
            /\ p_pc' = "loop"
       ELSE /\ p_pc' = "raised"
            /\ UNCHANGED lines
    /\ i' = 0
    /\ parsed_text' = <<>>
    /\ visited' = <<>>
    /\ UNCHANGED <<p_readable, p_content, p_result>>
    /\ UNCHANGED mvars
    /\ UNCHANGED dvars

\* lines 93-101 and 131-132: open and read, or return the placeholder
ReadFile ==
    /\ p_pc = "open"
    /\ IF p_readable
       THEN /\ lines' = split(p_content, "\n")
            /\ p_pc' = "loop"
            /\ UNCHANGED p_result
       ELSE /\ p_result' = ErrorPlaceholder
            /\ p_pc' = "returned"
            /\ UNCHANGED lines
    /\ i' = 0
    /\ parsed_text' = <<>>
    /\ visited' = <<>>
    /\ UNCHANGED <<p_readable, p_content>>
    /\ UNCHANGED mvars
    /\ UNCHANGED dvars

\* lines 104-106
SkipBlank ==
    /\ p_pc = "loop"
    /\ i < Len(lines)
    /\ IsBlankLine(lines, i)
    /\ i' = i + 1
    /\ visited' = Append(visited, i)
    /\ UNCHANGED <<p_readable, p_content, lines, parsed_text, p_result, p_pc>>
    /\ UNCHANGED mvars
    /\ UNCHANGED dvars

\* lines 109-123
IndexBlock ==
    /\ p_pc = "loop"
    /\ i < Len(lines)
    /\ ~IsBlankLine(lines, i)
    /\ IsIndexLine(lines, i)
    /\ LET s == IndexBlockStep(lines, i, parsed_text)
       IN  i' = s.i /\ parsed_text' = s.parsed_text
    /\ visited' = Append(visited, i)
    /\ UNCHANGED <<p_readable, p_content, lines, p_result, p_pc>>
    /\ UNCHANGED mvars
    /\ UNCHANGED dvars

\* lines 124-128
IrregularLine ==
    /\ p_pc = "loop"
    /\ i < Len(lines)
    /\ ~IsBlankLine(lines, i)
    /\ ~IsIndexLine(lines, i)
    /\ LET s == IrregularStep(lines, i, parsed_text)
       IN  i' = s.i /\ parsed_text' = s.parsed_text
    /\ visited' = Append(visited, i)
    /\ UNCHANGED <<p_readable, p_content, lines, p_result, p_pc>>
    /\ UNCHANGED mvars
    /\ UNCHANGED dvars

\* line 130
ReturnText ==
    /\ p_pc = "loop"
    /\ i >= Len(lines)
    /\ p_result' = join(<<"\n">>, parsed_text)
    /\ p_pc' = "returned"
    /\ UNCHANGED <<p_readable, p_content, lines, i, parsed_text, visited>>
    /\ UNCHANGED mvars
    /\ UNCHANGED dvars

ParseNext == ReadFile \/ SkipBlank \/ IndexBlock \/ IrregularLine \/ ReturnText

SpecParse == ParseInit /\ [][ParseNext]_vars

(***************************************************************************)
(* Spec: merge_subtitles on one directory.                                 *)
(***************************************************************************)
\* the directories: up to MaxFiles files in walk order, each with one of the
\* sample extensions, each readable or not
SampleFiles(k) ==
    { [path |-> SamplePath(k, e), readable |-> r] :
        e \in SampleExts, r \in BOOLEAN }

SampleListings ==
    UNION { { ls \in [1..n -> UNION { SampleFiles(k) : k \in 1..n }] :
                \A k \in 1..n : ls[k] \in SampleFiles(k) } : n \in 0..MaxFiles }

MergeInit ==
    /\ dir_listing \in SampleListings
    /\ ext_i = 0
    /\ subtitle_files = <<>>
    /\ total_files = 0
    /\ count = 0
    /\ m_i = 0
    /\ h_k = 0
    /\ subtitle_text = <<>>
    /\ output = <<>>
    /\ output_state = "untouched"
    /\ progress_out = <<>>
    /\ errors_out = <<>>
    /\ ret = 0
    /\ m_pc = "scan"
    /\ attempted = <<>>
    /\ write_failed = {}
    /\ open_failed = FALSE
    /\ ParseIdle
    /\ DownloadIdle

\* the file record behind a discovered path
FileAt(path) == CHOOSE f \in { dir_listing[k] : k \in 1..Len(dir_listing) } :
                    f.path = path

\* lines 151-155: one iteration of the scan loop
ScanExt ==
    /\ m_pc = "scan"
    /\ ext_i < Len(SubtitleExts)
    /\ LET found == glob(dir_listing, SubtitleExts[ext_i + 1])
       IN  subtitle_files' =
               IF found # <<>>
               THEN subtitle_files \o [k \in 1..Len(found) |-> found[k].path]
               ELSE subtitle_files
    /\ ext_i' = ext_i + 1
    /\ UNCHANGED <<dir_listing, total_files, count, m_i, h_k, subtitle_text,
                   output, output_state, progress_out, errors_out, ret, m_pc,
                   attempted, write_failed, open_failed>>
    /\ UNCHANGED pvars
    /\ UNCHANGED dvars

\* a merge without the early return of lines 160-162
CheckFound_NoEarlyReturn ==
    /\ m_pc = "scan"
    /\ ext_i = Len(SubtitleExts)
    /\ total_files' = Len(subtitle_files)
    /\ progress_out' =
          Append(progress_out, [progress |-> 0, percent |-> 0, processed |-> 0])
    /\ m_pc' = "open"
    /\ count' = 0
    /\ UNCHANGED <<dir_listing, ext_i, subtitle_files, m_i, h_k, subtitle_text,
                   output, output_state, errors_out, ret, attempted,
                   write_failed, open_failed>>
    /\ UNCHANGED pvars
    /\ UNCHANGED dvars

\* lines 157-167: nothing found returns 0; otherwise print the empty bar
CheckFound ==
    /\ m_pc = "scan"
    /\ ext_i = Len(SubtitleExts)
    /\ total_files' = Len(subtitle_files)
    /\ IF subtitle_files = <<>>
       THEN /\ ret' = 0
            /\ m_pc' = "returned"
            /\ UNCHANGED progress_out
       ELSE /\ progress_out' =
                Append(progress_out,
                       [progress |-> 0, percent |-> 0, processed |-> 0])
            /\ m_pc' = "open"
            /\ UNCHANGED ret
    /\ count' = 0
    /\ UNCHANGED <<dir_listing, ext_i, subtitle_files, m_i, h_k, subtitle_text,
                   output, output_state, errors_out, attempted, write_failed,
                   open_failed>>
    /\ UNCHANGED pvars
    /\ UNCHANGED dvars

\* a merge that opens the output file inside a try and returns the count on
\* failure
OpenOutput_Swallows ==
    /\ m_pc = "open"
    /\ \E ok \in BOOLEAN :
         IF ok
         THEN /\ output_state' = "open"
              /\ output' = <<>>
              /\ m_pc' = "loop"
              /\ UNCHANGED <<open_failed, ret>>
         ELSE /\ open_failed' = TRUE
              /\ ret' = count
              /\ m_pc' = "returned"
              /\ UNCHANGED <<output_state, output>>
    /\ m_i' = 0
    /\ UNCHANGED <<dir_listing, ext_i, subtitle_files, total_files, count, h_k,
                   subtitle_text, progress_out, errors_out, attempted,
                   write_failed>>
    /\ UNCHANGED pvars
    /\ UNCHANGED dvars

\* line 168: open(final_output_file, 'w'); a failure is outside every try
OpenOutput ==
    /\ m_pc = "open"
    /\ \E ok \in BOOLEAN :
         IF ok
         THEN /\ output_state' = "open"
              /\ output' = <<>>
              /\ m_pc' = "loop"
              /\ UNCHANGED open_failed
         ELSE /\ open_failed' = TRUE
              /\ m_pc' = "raised"
              /\ UNCHANGED <<output_state, output>>
    /\ m_i' = 0
    /\ UNCHANGED <<dir_listing, ext_i, subtitle_files, total_files, count, h_k,
                   subtitle_text, progress_out, errors_out, ret, attempted,
                   write_failed>>
    /\ UNCHANGED pvars
    /\ UNCHANGED dvars

\* lines 169-173: the loop takes the next file
NextFile ==
    /\ m_pc = "loop"
    /\ m_i < Len(subtitle_files)
    /\ attempted' = Append(attempted, m_i)
    /\ h_k' = 0
    /\ m_pc' = "header"
    /\ UNCHANGED <<dir_listing, ext_i, subtitle_files, total_files, count, m_i,
                   subtitle_text, output, output_state, progress_out,
                   errors_out, ret, write_failed, open_failed>>
    /\ UNCHANGED pvars
    /\ UNCHANGED dvars

\* lines 176-179: one output.write of the header; it may raise
WriteHeader ==
    /\ m_pc = "header"
    /\ \E ok \in BOOLEAN :
         IF ok
         THEN /\ output' =
                  Append(output,
                         [call |-> h_k + 1, file |-> m_i,
                          s |-> HeaderString(h_k + 1, subtitle_files[m_i + 1])])
              /\ h_k' = h_k + 1
              /\ m_pc' = IF h_k + 1 = HeaderWrites THEN "parse" ELSE "header"
              /\ UNCHANGED write_failed
         ELSE /\ write_failed' = write_failed \cup {m_i}
              /\ m_pc' = "except"
              /\ UNCHANGED <<output, h_k>>
    /\ UNCHANGED <<dir_listing, ext_i, subtitle_files, total_files, count, m_i,
                   subtitle_text, output_state, progress_out, errors_out, ret,
                   attempted, open_failed>>
    /\ UNCHANGED pvars
    /\ UNCHANGED dvars

\* line 182: the call parse_srt_to_text(srt_file)
CallParse ==
    /\ m_pc = "parse"
    /\ LET f == FileAt(subtitle_files[m_i + 1])
       IN  /\ p_readable' = f.readable
           /\ p_content' = IF f.readable THEN SampleContent(f.path) ELSE <<>>
    /\ lines' = <<>>
    /\ i' = 0
    /\ parsed_text' = <<>>
    /\ p_result' = <<>>
    /\ visited' = <<>>
    /\ p_pc' = "open"
    /\ m_pc' = "parsing"
    /\ UNCHANGED <<dir_listing, ext_i, subtitle_files, total_files, count, m_i,
                   h_k, subtitle_text, output, output_state, progress_out,
                   errors_out, ret, attempted, write_failed, open_failed>>
    /\ UNCHANGED dvars

\* line 182: the call is over: subtitle_text gets what it returned; had it
\* raised, the handler of line 195 would take over
ParseDone ==
    /\ m_pc = "parsing"
    /\ p_pc \in {"returned", "raised"}
    /\ IF p_pc = "raised"
       THEN /\ m_pc' = "except"
            /\ UNCHANGED subtitle_text
       ELSE /\ subtitle_text' = p_result
            /\ m_pc' = "text"
    /\ p_pc' = "idle"
    /\ UNCHANGED <<p_readable, p_content, lines, i, parsed_text, p_result,
                   visited>>
    /\ UNCHANGED <<dir_listing, ext_i, subtitle_files, total_files, count, m_i,
                   h_k, output, output_state, progress_out, errors_out, ret,
                   attempted, write_failed, open_failed>>
    /\ UNCHANGED dvars

\* line 183: output.write(subtitle_text); it may raise
WriteText ==
    /\ m_pc = "text"
    /\ \E ok \in BOOLEAN :
         IF ok
         THEN /\ output' =
                  Append(output,
                         [call |-> HeaderWrites + 1, file |-> m_i,
                          s |-> subtitle_text])
              /\ m_pc' = "count"
              /\ UNCHANGED write_failed
         ELSE /\ write_failed' = write_failed \cup {m_i}
              /\ m_pc' = "except"
              /\ UNCHANGED output
    /\ UNCHANGED <<dir_listing, ext_i, subtitle_files, total_files, count, m_i,
                   h_k, subtitle_text, output_state, progress_out, errors_out,
                   ret, attempted, open_failed>>
    /\ UNCHANGED pvars
    /\ UNCHANGED dvars

\* a merge that does not count a file whose transcript is the placeholder
CountAndProgress_SkipsPlaceholder ==
    /\ m_pc = "count"
    /\ count' = IF subtitle_text = ErrorPlaceholder THEN count ELSE count + 1
    /\ progress_out' = Append(progress_out, ProgressUpdate(m_i, total_files))
    /\ m_i' = m_i + 1
    /\ m_pc' = "loop"
    /\ UNCHANGED <<dir_listing, ext_i, subtitle_files, total_files, h_k,
                   subtitle_text, output, output_state, errors_out, ret,
                   attempted, write_failed, open_failed>>
    /\ UNCHANGED pvars
    /\ UNCHANGED dvars

\* lines 185-193: count the file and print the progress bar
CountAndProgress ==
    /\ m_pc = "count"
    /\ count' = count + 1
    /\ progress_out' = Append(progress_out, ProgressUpdate(m_i, total_files))
    /\ m_i' = m_i + 1
    /\ m_pc' = "loop"
    /\ UNCHANGED <<dir_listing, ext_i, subtitle_files, total_files, h_k,
                   subtitle_text, output, output_state, errors_out, ret,
                   attempted, write_failed, open_failed>>
    /\ UNCHANGED pvars
    /\ UNCHANGED dvars

\* a merge whose handler reports the error and raises it again
HandleError_Propagates ==
    /\ m_pc = "except"
    /\ errors_out' = Append(errors_out, subtitle_files[m_i + 1])
    /\ m_pc' = "raised"
    /\ UNCHANGED <<dir_listing, ext_i, subtitle_files, total_files, count, m_i,
                   h_k, subtitle_text, output, output_state, progress_out, ret,
                   attempted, write_failed, open_failed>>
    /\ UNCHANGED pvars
    /\ UNCHANGED dvars

\* lines 195-196: the handler of the loop body reports and goes on
HandleError ==
    /\ m_pc = "except"
    /\ errors_out' = Append(errors_out, subtitle_files[m_i + 1])
    /\ m_i' = m_i + 1
    /\ m_pc' = "loop"
    /\ UNCHANGED <<dir_listing, ext_i, subtitle_files, total_files, count, h_k,
                   subtitle_text, output, output_state, progress_out, ret,
                   attempted, write_failed, open_failed>>
    /\ UNCHANGED pvars
    /\ UNCHANGED dvars

\* lines 197-200: the loop is over: close the file, return count
ReturnCount ==
    /\ m_pc = "loop"
    /\ m_i >= Len(subtitle_files)
    /\ output_state' = "closed"
    /\ ret' = count
    /\ m_pc' = "returned"
    /\ UNCHANGED <<dir_listing, ext_i, subtitle_files, total_files, count, m_i,
                   h_k, subtitle_text, output, progress_out, errors_out,
                   attempted, write_failed, open_failed>>
    /\ UNCHANGED pvars
    /\ UNCHANGED dvars

Next ==
    \/ ScanExt
    \/ CheckFound
    \/ OpenOutput
    \/ NextFile
    \/ WriteHeader
    \/ CallParse
    \/ ReadFile
    \/ SkipBlank
    \/ IndexBlock
    \/ IrregularLine
    \/ ReturnText
    \/ ParseDone
    \/ WriteText
    \/ CountAndProgress
    \/ HandleError
    \/ ReturnCount

Init == MergeInit

Spec == Init /\ [][Next]_vars

\* merge_subtitles is one sequential thread of control: a step that can be
\* taken is taken
FairSpec == Spec /\ WF_vars(Next)

(***************************************************************************)
(* SpecDownload: download_subtitles from the start of the downloader       *)
(* (line 296) on.  dir_listing is what output_dir holds once the           *)
(* downloader is over.                                                     *)
(***************************************************************************)
\* exit codes of the downloader: success and two failures
ExitCodes == {0, 1, 2}

\* line 312: the extensions counted as downloaded subtitle files
CountExts ==
    << <<".", "s", "r", "t">>,
       <<".", "v", "t", "t">>,
       <<".", "a", "s", "s">>,
       <<".", "l", "r", "c">> >>

\* lines 311-314: subtitle_count over the first n extensions of line 312
RECURSIVE CountSubtitles(_, _)
CountSubtitles(listing, n) ==
    IF n = 0 THEN 0
    ELSE CountSubtitles(listing, n - 1) + Len(glob(listing, CountExts[n]))

DownloadInit ==
    /\ merge_to_single_file \in BOOLEAN
    /\ process = "none"
    /\ returncode = 0
    /\ subtitle_count = 0
    /\ merged_count = 0
    /\ d_reported = <<>>
    /\ d_ret = FALSE
    /\ d_pc = "popen"
    /\ merge_calls = 0
    /\ dir_listing \in SampleListings
    /\ ext_i = 0
    /\ subtitle_files = <<>>
    /\ total_files = 0
    /\ count = 0
    /\ m_i = 0
    /\ h_k = 0
    /\ subtitle_text = <<>>
    /\ output = <<>>
    /\ output_state = "untouched"
    /\ progress_out = <<>>
    /\ errors_out = <<>>
    /\ ret = 0
    /\ m_pc = "idle"
    /\ attempted = <<>>
    /\ write_failed = {}
    /\ open_failed = FALSE
    /\ ParseIdle

\* line 297: subprocess.Popen starts yt-dlp, or raises (lines 341-344)
StartProcess ==
    /\ d_pc = "popen"
    /\ \E started \in BOOLEAN :
         IF started
         THEN /\ process' = "running"
              /\ d_pc' = "wait"
              /\ UNCHANGED <<d_reported, d_ret>>
         ELSE /\ process' = "not_started"
              /\ d_reported' = Append(d_reported, "exception")
              /\ d_ret' = FALSE
              /\ d_pc' = "returned"
    /\ UNCHANGED <<merge_to_single_file, returncode, subtitle_count,
                   merged_count, merge_calls>>
    /\ UNCHANGED <<pvars, mvars>>

\* lines 300-303: pass the output through and wait for the exit code
WaitProcess ==
    /\ d_pc = "wait"
    /\ \E code \in ExitCodes : returncode' = code
    /\ process' = "exited"
    /\ d_pc' = "check"
    /\ UNCHANGED <<merge_to_single_file, subtitle_count, merged_count,
                   d_reported, d_ret, merge_calls>>
    /\ UNCHANGED <<pvars, mvars>>

\* a download that goes on to count and merge whatever the exit code is
CheckExit_IgnoresCode ==
    /\ d_pc = "check"
    /\ d_reported' = Append(d_reported, "completed")
    /\ d_pc' = "count"
    /\ UNCHANGED <<merge_to_single_file, process, returncode, subtitle_count,
                   merged_count, d_ret, merge_calls>>
    /\ UNCHANGED <<pvars, mvars>>

\* lines 305-308 and 336-339: exit code 0 goes on, any other is reported
\* and returns False
CheckExit ==
    /\ d_pc = "check"
    /\ IF returncode = 0
       THEN /\ d_reported' = Append(d_reported, "completed")
            /\ d_pc' = "count"
            /\ UNCHANGED d_ret
       ELSE /\ d_reported' = Append(d_reported, "exit_code")
            /\ d_ret' = FALSE
            /\ d_pc' = "returned"
    /\ UNCHANGED <<merge_to_single_file, process, returncode, subtitle_count,
                   merged_count, merge_calls>>
    /\ UNCHANGED <<pvars, mvars>>

\* lines 310-320: count the downloaded files and decide whether to merge
CountFiles ==
    /\ d_pc = "count"
    /\ subtitle_count' = CountSubtitles(dir_listing, Len(CountExts))
    /\ d_pc' = IF merge_to_single_file /\ subtitle_count' > 0
               THEN "merge" ELSE "summary"
    /\ UNCHANGED <<merge_to_single_file, process, returncode, merged_count,
                   d_reported, d_ret, merge_calls>>
    /\ UNCHANGED <<pvars, mvars>>

\* line 321: the call merge_subtitles(output_dir, final_output_file)
CallMerge ==
    /\ d_pc = "merge"
    /\ m_pc = "idle"
    /\ m_pc' = "scan"
    /\ merge_calls' = merge_calls + 1
    /\ d_pc' = "merging"
    /\ UNCHANGED <<merge_to_single_file, process, returncode, subtitle_count,
                   merged_count, d_reported, d_ret>>
    /\ UNCHANGED <<dir_listing, ext_i, subtitle_files, total_files, count, m_i,
                   h_k, subtitle_text, output, output_state, progress_out,
                   errors_out, ret, attempted, write_failed, open_failed>>
    /\ UNCHANGED pvars

\* line 321: the call is over: merged_count gets the count, or the
\* exception of the merge reaches the handler of lines 341-344
MergeDone ==
    /\ d_pc = "merging"
    /\ m_pc \in {"returned", "raised"}
    /\ IF m_pc = "raised"
       THEN /\ d_reported' = Append(d_reported, "exception")
            /\ d_ret' = FALSE
            /\ d_pc' = "returned"
            /\ UNCHANGED merged_count
       ELSE /\ merged_count' = ret
            /\ d_pc' = "summary"
            /\ UNCHANGED <<d_reported, d_ret>>
    /\ UNCHANGED <<merge_to_single_file, process, returncode, subtitle_count,
                   merge_calls>>
    /\ UNCHANGED <<pvars, mvars>>

\* lines 322-335: print the summary and return True
ReturnTrue ==
    /\ d_pc = "summary"
    /\ d_ret' = TRUE
    /\ d_pc' = "returned"
    /\ UNCHANGED <<merge_to_single_file, process, returncode, subtitle_count,
                   merged_count, d_reported, merge_calls>>
    /\ UNCHANGED <<pvars, mvars>>

DownloadNext ==
    \/ StartProcess
    \/ WaitProcess
    \/ CheckExit
    \/ CountFiles
    \/ CallMerge
    \/ ScanExt
    \/ CheckFound
    \/ OpenOutput
    \/ NextFile
    \/ WriteHeader
    \/ CallParse
    \/ ReadFile
    \/ SkipBlank
    \/ IndexBlock
    \/ IrregularLine
    \/ ReturnText
    \/ ParseDone
    \/ WriteText
    \/ CountAndProgress
    \/ HandleError
    \/ ReturnCount
    \/ MergeDone
    \/ ReturnTrue

SpecDownload == DownloadInit /\ [][DownloadNext]_vars

(***************************************************************************)
(* Properties of parse_srt_to_text (checked under SpecParse).              *)
(***************************************************************************)
\* the maximal runs of non-blank lines of ls, in order
RECURSIVE RunsFrom(_, _, _)
RunsFrom(ls, k, cur) ==
    IF k > Len(ls) THEN (IF cur = <<>> THEN <<>> ELSE <<cur>>)
    ELSE IF strip(ls[k]) = <<>>
         THEN (IF cur = <<>> THEN <<>> ELSE <<cur>>) \o RunsFrom(ls, k + 1, <<>>)
         ELSE RunsFrom(ls, k + 1, Append(cur, ls[k]))

Blocks(ls) == RunsFrom(ls, 1, <<>>)

\* a numbered block: an index line, a timestamp line, then one or more text
\* lines none of which is all digits
NumberedBlock(b) ==
    /\ Len(b) >= 3
    /\ isdigit(strip(b[1]))
    /\ HasArrow(b[2])
    /\ \A k \in 3..Len(b) : ~isdigit(strip(b[k]))

StandardFormat(ls) ==
    \A n \in 1..Len(Blocks(ls)) : NumberedBlock(Blocks(ls)[n])

\* the trimmed text lines of block b joined by single spaces
BlockText(b) == join(<<" ">>, [k \in 1..(Len(b) - 2) |-> strip(b[k + 2])])

ParseReturned == m_pc = "idle" /\ p_pc = "returned" /\ p_readable

\* C1: on an input in the standard numbered-block format the parser returns
\* one output line per block, in block order, each the block's trimmed text
\* lines joined by single spaces.
C1_StandardBlocks ==
    (ParseReturned /\ StandardFormat(lines)) =>
        LET bs == Blocks(lines)
        IN  /\ p_result = join(<<"\n">>, [n \in 1..Len(bs) |-> BlockText(bs[n])])
            /\ bs # <<>> => Len(split(p_result, "\n")) = Len(bs)

\* two blocks were parsed, the first of them with text
C1_Witness ==
    /\ ParseReturned
    /\ StandardFormat(lines)
    /\ Len(Blocks(lines)) = 2
    /\ Len(split(p_result, "\n")) = 2

\* C2: no line of the text the parser returns contains the marker '-->'.
C2_NoTimestampInOutput ==
    ParseReturned =>
        \A n \in 1..Len(split(p_result, "\n")) :
            ~HasArrow(split(p_result, "\n")[n])

\* C12: the parsing loop terminates: every iteration of the outer loop moves
\* the cursor forward by at least one line and the cursor never passes the
\* number of lines, so no line starts two iterations and there are at most
\* as many iterations as lines.
C12_LoopTerminates ==
    /\ i <= Len(lines)
    /\ \A k \in 1..Len(visited) : 0 <= visited[k] /\ visited[k] < Len(lines)
    /\ \A j, k \in 1..Len(visited) : j < k => visited[j] < visited[k]
    /\ visited # <<>> => i > visited[Len(visited)]
    /\ Len(visited) <= Len(lines)

\* a parse that took the blank-line, the index-block and the irregular-line
\* branch, the index block taking more than one line
C12_Witness ==
    /\ p_pc = "returned"
    /\ p_readable
    /\ Len(visited) < Len(lines)
    /\ \E a, b, c \in { visited[k] : k \in 1..Len(visited) } :
          /\ IsBlankLine(lines, a)
          /\ ~IsBlankLine(lines, b) /\ IsIndexLine(lines, b)
          /\ ~IsBlankLine(lines, c) /\ ~IsIndexLine(lines, c)

(***************************************************************************)
(* Properties of merge_subtitles (checked under Spec).                     *)
(***************************************************************************)
NumFound == Len(subtitle_files)

\* loop indices of the discovered files
FoundIdx == 0..(NumFound - 1)

IsReadable(f) == FileAt(subtitle_files[f + 1]).readable

Unreadable == { f \in FoundIdx : ~IsReadable(f) }

\* what the output file holds for the file of loop index f
OutputOf(f) == SelectSeq(output, LAMBDA c : c.file = f)

\* a section: the four header strings and the transcript
HasSection(f) == Len(OutputOf(f)) = HeaderWrites + 1

NumSections == Cardinality({ f \in FoundIdx : HasSection(f) })

Transcript(f) == OutputOf(f)[HeaderWrites + 1].s

MergeReturned == m_pc = "returned" /\ output_state = "closed"

\* the loop indices whose iteration is over
Handled == 0..(m_i - 1)

\* C3 as stated: with K of the N discovered files unreadable (and nothing
\* else going wrong) merge returns N-K and the document has N-K sections.
C3_ReturnsNMinusK ==
    (MergeReturned /\ write_failed = {}) =>
        /\ ret = NumFound - Cardinality(Unreadable)
        /\ NumSections = NumFound - Cardinality(Unreadable)

\* C3 amended: an unreadable file is counted like a readable one.  Merge
\* returns N minus the number of files on which a write to the output
\* raised (N when none did, whatever K is), the document holds that many
\* sections, an unreadable file's section carries the error placeholder as
\* its transcript, and every file after an unreadable one is processed.
C3_UnreadableStillCounted ==
    MergeReturned =>
        /\ ret = NumFound - Cardinality(write_failed)
        /\ NumSections = ret
        /\ \A f \in FoundIdx \ write_failed :
              /\ HasSection(f)
              /\ f \in Unreadable => Transcript(f) = ErrorPlaceholder
        /\ Len(attempted) = NumFound

\* an unreadable file followed by a readable one, both merged and counted
C3_Witness ==
    /\ MergeReturned
    /\ write_failed = {}
    /\ ret = NumFound
    /\ \E a, b \in FoundIdx :
          a < b /\ a \in Unreadable /\ b \notin Unreadable /\ HasSection(b)

\* C4: parse_srt_to_text never raises to merge_subtitles; for a file that
\* cannot be read it returns the placeholder, which merge writes as that
\* file's transcript before going on to the next file.
C4_PlaceholderMerged ==
    /\ m_pc = "except" => m_i \in write_failed
    /\ (m_pc = "text" /\ m_i \in Unreadable) => subtitle_text = ErrorPlaceholder
    /\ \A f \in (Handled \cap Unreadable) \ write_failed :
          HasSection(f) /\ Transcript(f) = ErrorPlaceholder
    /\ \A f \in (Handled \cap Unreadable) :
          f + 1 < NumFound =>
            \/ f + 1 \in { attempted[k] : k \in 1..Len(attempted) }
            \/ m_pc = "loop" /\ m_i = f + 1

\* the placeholder is in the document and the next file's header follows it
C4_Witness ==
    \E f \in Unreadable :
        /\ HasSection(f)
        /\ Transcript(f) = ErrorPlaceholder
        /\ OutputOf(f + 1) # <<>>

\* the scan order the claim names
ClaimedExtOrder ==
    << <<".", "s", "r", "t">>, <<".", "v", "t", "t">>, <<".", "a", "s", "s">>,
       <<".", "l", "r", "c">>, <<".", "t", "t", "m", "l">>,
       <<".", "s", "b", "v">>, <<".", "j", "s", "o", "n">> >>

ExtRank(path) ==
    CHOOSE r \in 1..Len(ClaimedExtOrder) : endswith(path, ClaimedExtOrder[r])

WalkPos(path) ==
    CHOOSE k \in 1..Len(dir_listing) : dir_listing[k].path = path

\* C5: sections appear in discovery order: by extension in the order .srt,
\* .vtt, .ass, .lrc, .ttml, .sbv, .json, then in directory-walk order; each
\* discovered file yields at most one section, which starts with its
\* divider / VIDEO / FILE / divider header.
C5_DiscoveryOrder ==
    /\ \A a, b \in 1..NumFound :
          a < b =>
            LET pa == subtitle_files[a]
                pb == subtitle_files[b]
            IN  \/ ExtRank(pa) < ExtRank(pb)
                \/ ExtRank(pa) = ExtRank(pb) /\ WalkPos(pa) < WalkPos(pb)
    /\ \A j, k \in 1..Len(output) : j < k => output[j].file <= output[k].file
    /\ \A f \in FoundIdx :
          LET o    == OutputOf(f)
              path == subtitle_files[f + 1]
          IN  /\ Len(o) <= HeaderWrites + 1
              /\ \A n \in 1..Len(o) : o[n].call = n
              /\ Len(o) >= 1 => o[1].s = <<"\n", "\n", DividerLine, "\n">>
              /\ Len(o) >= 2 =>
                    o[2].s = <<"VIDEO: ">> \o splitext0(basename(path)) \o <<"\n">>
              /\ Len(o) >= 3 => o[3].s = <<"FILE: ">> \o path \o <<"\n">>
              /\ Len(o) >= 4 => o[4].s = <<DividerLine, "\n", "\n">>

\* two sections in the document whose files the directory walk listed in the
\* other order
C5_Witness ==
    /\ MergeReturned
    /\ \E a, b \in FoundIdx :
          /\ a < b
          /\ HasSection(a)
          /\ HasSection(b)
          /\ WalkPos(subtitle_files[a + 1]) > WalkPos(subtitle_files[b + 1])

C6_Safety ==
    /\ output_state # "untouched" => m_pc # "raised"
    /\ attempted = [k \in 1..Len(attempted) |-> k - 1]
    /\ Len(attempted) =
          m_i + (IF m_pc \in {"header", "parse", "parsing", "text", "count",
                             "except"}
                 THEN 1 ELSE 0)
    /\ Len(errors_out) + (IF m_pc = "except" THEN 1 ELSE 0)
          = Cardinality(write_failed)
    /\ \A k \in 1..Len(errors_out) : errors_out[k] \in
          { subtitle_files[f + 1] : f \in write_failed }
    /\ MergeReturned => Len(attempted) = NumFound /\ ret = count

\* C6: once the output file is open every discovered file is attempted
\* exactly once: an exception in the loop body is caught and reported, the
\* loop goes on, reaches the last file and returns a count.
C6_EveryFileAttempted ==
    /\ []C6_Safety
    /\ (output_state = "open") ~> MergeReturned

\* a file raised and a later file was still merged before the return
C6_Witness ==
    /\ MergeReturned
    /\ \E a, b \in FoundIdx : a < b /\ a \in write_failed /\ HasSection(b)

\* C7 as stated: the count returned equals the number of sections in the
\* document and a file whose processing raised left nothing in it.
C7_FailedFileLeavesNothing ==
    MergeReturned =>
        /\ ret = NumSections
        /\ \A f \in write_failed : OutputOf(f) = <<>>

\* C8: if opening the output file fails the exception leaves
\* merge_subtitles: nothing is returned and no discovered file is processed.
C8_OpenFailurePropagates ==
    /\ open_failed =>
          /\ m_pc = "raised"
          /\ NumFound >= 1
          /\ attempted = <<>>
          /\ output = <<>>
          /\ output_state = "untouched"
          /\ errors_out = <<>>
          /\ ~ENABLED Next
    /\ m_pc = "raised" => open_failed

C8_Witness == open_failed /\ m_pc = "raised" /\ NumFound >= 2

\* C9 as stated: after each handled file, succeeded or not, a progress
\* update showing handled/total is printed; there are as many updates as
\* discovered files and the last shows 100%.
C9_ProgressAfterEveryFile ==
    (output_state # "untouched" /\ m_pc \in {"loop", "returned"}) =>
        /\ Len(progress_out) - 1 = m_i
        /\ progress_out[Len(progress_out)].processed = m_i
        /\ m_pc = "returned" => progress_out[Len(progress_out)].percent = 100

\* C10: when discovery finds nothing merge returns 0 and leaves the output
\* file alone.
C10_NothingFound ==
    (m_pc # "scan" /\ subtitle_files = <<>>) =>
        /\ m_pc = "returned"
        /\ ret = 0
        /\ output_state = "untouched"
        /\ output = <<>>
        /\ ~open_failed
        /\ attempted = <<>>

\* a directory that holds files, none of them a subtitle file
C10_Witness ==
    /\ m_pc = "returned"
    /\ subtitle_files = <<>>
    /\ dir_listing # <<>>
    /\ ret = 0

(***************************************************************************)
(* Properties of download_subtitles (checked under SpecDownload).          *)
(***************************************************************************)
DownloadFailed ==
    process = "not_started" \/ (process = "exited" /\ returncode # 0)

\* C11: merge_subtitles is never called in a run whose downloader could not
\* be started or exited with a non-zero code: such a run reports the
\* failure and returns False, and the merge only ever follows exit code 0.
C11_MergeOnlyAfterSuccess ==
    /\ merge_calls <= 1
    /\ (merge_calls > 0 \/ m_pc # "idle") =>
          process = "exited" /\ returncode = 0
    /\ DownloadFailed =>
          /\ merge_calls = 0
          /\ m_pc = "idle"
          /\ output_state = "untouched"
          /\ d_pc \in {"check", "returned"}
    /\ (DownloadFailed /\ d_pc = "returned") =>
          /\ d_ret = FALSE
          /\ d_reported =
                IF process = "not_started" THEN <<"exception">>
                ELSE <<"exit_code">>

\* a failed download that left subtitle files behind, with merging asked for
C11_Witness ==
    /\ d_pc = "returned"
    /\ process = "exited"
    /\ returncode # 0
    /\ merge_to_single_file
    /\ CountSubtitles(dir_listing, Len(CountExts)) > 0
    /\ merge_calls = 0
    /\ d_ret = FALSE

=============================================================================
